---- MODULE Spec2Model ----
(***************************************************************************)
(* A model of mator/views.py: the magnet validator, the retention sweep,   *)
(* download_magnet_file (session, metadata wait, metadata gate, transfer   *)
(* loop, artifact resolution) and download_view, with the torrent engine   *)
(* (libtorrent), the wall clock and the downloads directory as the         *)
(* environment.                                                            *)
(*                                                                         *)
(* Strings are sequences of one-character strings.  Progress is counted in *)
(* millionths (libtorrent's progress_ppm), so 0.001 is 1000 and 0.95 is    *)
(* 950000.  Time is in whole seconds: a sleep lasts exactly its argument   *)
(* and the statements between two sleeps take no time.                     *)
(***************************************************************************)
EXTENDS Integers, Sequences, FiniteSets, TLC

\* ------------------------------------------------------------------ bounds
\* settings.TORRENT_METADATA_TIMEOUT and settings.TORRENT_DOWNLOAD_TIMEOUT
\* (seconds) of the single-request specification, the download timeout of the
\* specification of the transfer loop alone, and those of the concurrent one.
MetadataTimeout == 1
DownloadTimeout == 2
StallDownloadTimeout == 34
ConcMetadataTimeout == 0
ConcDownloadTimeout == 0
\* Alerts the engine session may hold undrained.
MaxAlerts == 1

\* ------------------------------------------------------- program constants
MetadataSleep == 1
TransferSleep == 2
StallStep == 2
StallLimit == 30
Epsilon == 1000
EarlyExitProgress == 950000
MaxAgeHours == 1
DefaultMaxDownloadSize == 500 * 1024 * 1024

Requests == {"r1", "r2"}

\* ----------------------------------------------------------------- strings
Rep(c, n) == [i \in 1..n |-> c]
StartsWith(s, p) == Len(s) >= Len(p) /\ SubSeq(s, 1, Len(p)) = p

Whitespace == {" ", "\t", "\n"}
HexChars ==
    {"0", "1", "2", "3", "4", "5", "6", "7", "8", "9",
     "a", "b", "c", "d", "e", "f", "A", "B", "C", "D", "E", "F"}
Base32Chars ==
    {"a", "b", "c", "d", "e", "f", "g", "h", "i", "j", "k", "l", "m", "n",
     "o", "p", "q", "r", "s", "t", "u", "v", "w", "x", "y", "z",
     "A", "B", "C", "D", "E", "F", "G", "H", "I", "J", "K", "L", "M", "N",
     "O", "P", "Q", "R", "S", "T", "U", "V", "W", "X", "Y", "Z",
     "2", "3", "4", "5", "6", "7"}

\* "magnet:?xt=urn:btih:"
MagnetPrefix ==
    <<"m", "a", "g", "n", "e", "t", ":", "?", "x", "t", "=",
      "u", "r", "n", ":", "b", "t", "i", "h", ":">>
\* "xt=urn:btih:", the literal head of the regular expression
HashKey == SubSeq(MagnetPrefix, 9, 20)

\* str.strip(): leading and trailing whitespace removed
strip(s) ==
    LET keep == {i \in 1..Len(s) : s[i] \notin Whitespace}
    IN  IF keep = {} THEN <<>>
        ELSE LET lo == CHOOSE i \in keep : \A j \in keep : i <= j
                 hi == CHOOSE i \in keep : \A j \in keep : i >= j
             IN  SubSeq(s, lo, hi)

\* s[from .. from+n-1] lies inside s and holds only characters of set
RunOf(s, from, n, set) ==
    /\ from + n - 1 <= Len(s)
    /\ \A k \in from..(from + n - 1) : s[k] \in set

\* (mutant) the repetition counts are one too high
re_search_hash_longer(magnet) ==
    \E i \in 1..Len(magnet) :
        /\ i + Len(HashKey) - 1 <= Len(magnet)
        /\ SubSeq(magnet, i, i + Len(HashKey) - 1) = HashKey
        /\ \/ RunOf(magnet, i + Len(HashKey), 41, HexChars)
           \/ RunOf(magnet, i + Len(HashKey), 33, Base32Chars)

\* re.search(r'xt=urn:btih:([a-fA-F0-9]{40}|[a-zA-Z2-7]{32})', magnet)
re_search_hash(magnet) ==
    \E i \in 1..Len(magnet) :
        /\ i + Len(HashKey) - 1 <= Len(magnet)
        /\ SubSeq(magnet, i, i + Len(HashKey) - 1) = HashKey
        /\ \/ RunOf(magnet, i + Len(HashKey), 40, HexChars)
           \/ RunOf(magnet, i + Len(HashKey), 32, Base32Chars)

is_valid_magnet(magnet) ==
    IF magnet = <<>> THEN FALSE
    ELSE IF ~StartsWith(magnet, MagnetPrefix) THEN FALSE
    ELSE IF Len(magnet) < 50 THEN FALSE
    ELSE IF ~re_search_hash(magnet) THEN FALSE
    ELSE TRUE

\* The strings a client posts.
MagnetInputs ==
    { <<>>,
      <<" ", " ">>,
      <<"n", "o", "t", "-", "a", "-", "m", "a", "g", "n", "e", "t">>,
      MagnetPrefix \o Rep("9", 39),
      <<" ">> \o MagnetPrefix \o Rep("a", 40) \o <<"\n">> }

\* The strings is_valid_magnet is tried on: a head (the prefix, the prefix
\* with a capital M, the prefix after another parameter, or nothing), a run
\* of one character (hexadecimal only, base32 only, both, neither) of a
\* length around 32 and 40, and a tail; and two strings whose only long run
\* does not follow the first "xt=urn:btih:".
ValidatorHeads ==
    { MagnetPrefix,
      <<"M">> \o SubSeq(MagnetPrefix, 2, 20),
      SubSeq(MagnetPrefix, 1, 8) \o <<"d", "n", "=", "x", "&">> \o HashKey,
      <<>> }
ValidatorRunLengths == {0, 29, 30, 31, 32, 33, 39, 40, 41}
ValidatorTails == {<<>>, <<"&", "d", "n", "=", "x">>}
ValidatorInputs ==
    {head \o Rep(c, n) \o tail :
        head \in ValidatorHeads, c \in {"9", "z", "a", "F", "-"},
        n \in ValidatorRunLengths, tail \in ValidatorTails}
    \cup
    { MagnetPrefix \o Rep("9", 10) \o <<"&">> \o HashKey \o Rep("9", 40),
      MagnetPrefix \o Rep("9", 10) \o <<"&", "d", "n", "=">> \o Rep("9", 40) }

\* ------------------------------------------------------------------- paths
Sep == "/"
\* settings.DOWNLOADS_DIR
DOWNLOADS_DIR == <<"/", "d">>

LastSep(p) ==
    LET at == {i \in 1..Len(p) : p[i] = Sep}
    IN  IF at = {} THEN 0 ELSE CHOOSE i \in at : \A j \in at : i >= j

\* os.path.basename, os.path.dirname, os.path.join (POSIX)
basename(p) == SubSeq(p, LastSep(p) + 1, Len(p))
dirname(p) == IF LastSep(p) <= 1 THEN SubSeq(p, 1, LastSep(p))
              ELSE SubSeq(p, 1, LastSep(p) - 1)
join(a, b) ==
    IF b # <<>> /\ b[1] = Sep THEN b
    ELSE IF a = <<>> \/ a[Len(a)] = Sep THEN a \o b
    ELSE a \o <<Sep>> \o b

\* filename = re.sub(r'[<>:"/\\|?*]', '_', filename)
UnsafeChars == {"<", ">", ":", "\"", "/", "\\", "|", "?", "*"}
sanitize(filename) ==
    [i \in 1..Len(filename) |->
        IF filename[i] \in UnsafeChars THEN "_" ELSE filename[i]]

\* filename = os.path.basename(file_info), with the timestamp fallback
sanitized_filename(file_info, now) ==
    LET base == basename(file_info)
        name == IF base = <<>> \/ base \in {<<".">>, <<".", ".">>}
                THEN <<"downloaded_file_", ToString(now)>>
                ELSE base
    IN  sanitize(name)

\* -------------------------------------------------------------- filesystem
\* The names that occur in the model, relative to the downloads directory.
NameUnsafe == <<"a", "?">>
NameSafe == <<"a", "_">>
NameDir == <<"D">>
NameInDir == <<"D", "/", "a">>
NameInDir2 == <<"D", "/", "b">>
NamePlain == <<"a">>
NameLeftover == <<"o">>

AllPaths ==
    {DOWNLOADS_DIR} \cup
    {join(DOWNLOADS_DIR, n) :
        n \in {NameUnsafe, NameSafe, NameDir, NameInDir, NamePlain, NameLeftover}}

NoEntry == [kind |-> "none", size |-> 0, ctime |-> 0]
DirEntry(t) == [kind |-> "dir", size |-> 4096, ctime |-> t]
FileEntry(n, t) == [kind |-> "file", size |-> n, ctime |-> t]

exists(disk, p) == p \in DOMAIN disk /\ disk[p].kind # "none"
isfile(disk, p) == p \in DOMAIN disk /\ disk[p].kind = "file"
isdir(disk, p) == p \in DOMAIN disk /\ disk[p].kind = "dir"
getsize(disk, p) == disk[p].size
getctime(disk, p) == disk[p].ctime

\* os.listdir(directory): the names directly under it (in no particular order)
listdir(disk, directory) ==
    {basename(p) : p \in {q \in DOMAIN disk :
                            exists(disk, q) /\ q # directory /\ dirname(q) = directory}}

\* (mutant) a file of exactly the maximum age is removed
Expired_inclusive(disk, directory, current_time, max_age_hours) ==
    {filename \in listdir(disk, directory) :
        LET filepath == join(directory, filename)
        IN  /\ isfile(disk, filepath)
            /\ current_time - getctime(disk, filepath) >= max_age_hours * 3600}

\* The files one complete run of the loop of cleanup_old_files removes.
Expired(disk, directory, current_time, max_age_hours) ==
    {filename \in listdir(disk, directory) :
        LET filepath == join(directory, filename)
        IN  /\ isfile(disk, filepath)
            /\ current_time - getctime(disk, filepath) > max_age_hours * 3600}

Remove(disk, directory, names) ==
    [p \in DOMAIN disk |->
        IF \E n \in names : p = join(directory, n) THEN NoEntry ELSE disk[p]]

\* cleanup_old_files(directory, max_age_hours): os.listdir raises when the
\* directory is missing and the handler swallows it.
cleanup_old_files(disk, directory, current_time, max_age_hours) ==
    IF ~isdir(disk, directory) THEN disk
    ELSE Remove(disk, directory,
                Expired(disk, directory, current_time, max_age_hours))

\* What a call of cleanup_old_files may leave: the complete run, or a run an
\* exception cut short (os.listdir, os.path.getctime or os.remove raising:
\* permission, a file another process removed in between), which has removed
\* only some of the expired files; the handler swallows the exception.  A
\* run cut short with no expired file left behind leaves what the complete
\* run leaves and is not told apart from it; with the directory missing
\* os.listdir raises at once.
cleanup_runs(disk, directory, current_time, max_age_hours) ==
    {[disk |-> cleanup_old_files(disk, directory, current_time, max_age_hours),
      error |-> ~isdir(disk, directory)]}
    \cup
    {[disk |-> Remove(disk, directory, gone), error |-> TRUE] :
        gone \in IF isdir(disk, directory)
                 THEN (SUBSET Expired(disk, directory, current_time, max_age_hours))
                      \ {Expired(disk, directory, current_time, max_age_hours)}
                 ELSE {}}

\* os.makedirs(directory, exist_ok=True)
makedirs(disk, directory, now) ==
    IF exists(disk, directory) THEN disk
    ELSE [disk EXCEPT ![directory] = DirEntry(now)]

\* ------------------------------------------------------------- environment
\* A torrent as the swarm serves it: the metadata the handle reports once it
\* has it, and the name (relative to save_path) under which the engine
\* materialises the first file.
TorrentInfo(n, size, paths, display) ==
    [num_files |-> n, total_size |-> size, files |-> paths, name |-> display]
NoTorrentInfo == TorrentInfo(0 - 1, 0, <<>>, <<>>)

SwarmPlain ==
    [info |-> TorrentInfo(1, DefaultMaxDownloadSize, <<NameUnsafe>>, NameUnsafe),
     written |-> NameUnsafe]
SwarmRenamed ==
    [info |-> TorrentInfo(1, DefaultMaxDownloadSize, <<NameUnsafe>>, NameUnsafe),
     written |-> NameSafe]
SwarmMulti ==
    [info |-> TorrentInfo(2, 2048, <<NameInDir, NameInDir2>>, NameDir),
     written |-> NameInDir]
SwarmNoFiles ==
    [info |-> TorrentInfo(0, 0, <<>>, NameUnsafe), written |-> <<>>]
SwarmTooLarge ==
    [info |-> TorrentInfo(1, DefaultMaxDownloadSize + 1, <<NameUnsafe>>, NameUnsafe),
     written |-> NameUnsafe]
Swarms == {SwarmPlain, SwarmRenamed, SwarmMulti, SwarmNoFiles, SwarmTooLarge}

\* handle.status().progress as the engine may report it (millionths)
ProgressValues == {0, 949500, 950000, 950500}

\* alerts: category() is a set of category_t flags
ErrorAlert == [category |-> {"error_notification"}, message |-> "tracker error"]
StatusAlert == [category |-> {"status_notification"}, message |-> "state changed"]
AlertTypes == {ErrorAlert, StatusAlert}

\* The downloads directory before the first request: missing, or holding a
\* file an earlier run left, created 3601 s or exactly 3600 s before time 0.
EmptyDisk == [p \in AllPaths |-> NoEntry]
LeftoverDisk(ctime) ==
    [EmptyDisk EXCEPT ![DOWNLOADS_DIR] = DirEntry(ctime),
                      ![join(DOWNLOADS_DIR, NameLeftover)] = FileEntry(7, ctime)]
InitialDisks == {EmptyDisk, LeftoverDisk(0 - 3601), LeftoverDisk(0 - 3600)}

\* The engine writes: the file appears empty (sparse allocation), then holds
\* data; its parent directory is created with it.  Files written during a
\* run carry ctime 0: a run is far shorter than max_age_hours, so their age
\* never exceeds it, whatever the second they were written in.
engine_write(disk, name) ==
    LET path == join(DOWNLOADS_DIR, name)
        parent == dirname(path)
        d1 == IF parent # DOWNLOADS_DIR /\ ~exists(disk, parent)
              THEN [disk EXCEPT ![parent] = DirEntry(0)] ELSE disk
    IN  IF ~exists(d1, path) THEN [d1 EXCEPT ![path] = FileEntry(0, 0)]
        ELSE [d1 EXCEPT ![path] = FileEntry(2048, 0)]

\* ------------------------------------------------------------------- state
VARIABLES
    time,                 \* time.time(), seconds
    fs,                   \* the filesystem: path -> entry
    settings,             \* django.conf.settings
    libtorrent_installed, \* whether "import libtorrent" succeeds
    pc,                   \* where each request is in download_view
    post,                 \* request.POST["magnet"] as submitted
    swarm,                \* the torrent behind each request's magnet
    ses,                  \* the request's lt.session
    alerts,               \* the alerts pending in that session
    loc,                  \* the locals of download_magnet_file
    wake,                 \* when the request's time.sleep returns
    result,               \* what download_magnet_file returned or raised
    response,             \* what download_view answered
    hist                  \* observation: loop iterations and the like

vars == <<time, fs, settings, libtorrent_installed, pc, post,
          swarm, ses, alerts, loc, wake, result, response, hist>>

Merge(old, new) ==
    [k \in DOMAIN old |-> IF k \in DOMAIN new THEN new[k] ELSE old[k]]
Abs(x) == IF x < 0 THEN 0 - x ELSE x
Min(S) == CHOOSE x \in S : \A y \in S : x <= y

NoSession == [state |-> "none", listen_interfaces |-> ""]
NoLocals ==
    [torrent_info |-> NoTorrentInfo, expected_full_path |-> <<>>,
     sanitized_path |-> <<>>, start_time |-> 0, start_download_time |-> 0,
     last_progress |-> 0, stalled_time |-> 0]
NoHistory ==
    [md_ticks |-> 0, dl_ticks |-> 0, stall_run |-> 0, broken_run |-> 0,
     creep_run |-> 0, prev_progress |-> 0, removed |-> 0, sweep_error |-> FALSE,
     unswept |-> {}, handle |-> "none", has_metadata |-> FALSE,
     swept |-> FALSE, gated |-> FALSE, resolved |-> FALSE]

NoResult == [kind |-> "none", path |-> <<>>, error |-> "", message |-> <<>>]
Returned(path) == [kind |-> "path", path |-> path, error |-> "", message |-> <<>>]
Raised(tag, msg) == [kind |-> "error", path |-> <<>>, error |-> tag, message |-> msg]

NoResponse == [kind |-> "none", path |-> <<>>, size |-> 0, error |-> "", message |-> <<>>]
FileResponse(path, n) ==
    [kind |-> "file", path |-> path, size |-> n, error |-> "", message |-> <<>>]
ErrorPage(tag, msg) ==
    [kind |-> "error", path |-> <<>>, size |-> 0, error |-> tag, message |-> msg]

\* The first error-category alert of a drained batch, as a sequence of 0 or 1.
first_error(pending) ==
    LET at == {i \in 1..Len(pending) : "error_notification" \in pending[i].category}
    IN  IF at = {} THEN <<>> ELSE <<pending[Min(at)]>>

\* for path in potential_paths: if os.path.exists(path) and
\* os.path.getsize(path) > 0: return path      (a sequence of 0 or 1 paths)
first_found(disk, potential_paths) ==
    LET ok == {i \in 1..Len(potential_paths) :
                  /\ exists(disk, potential_paths[i])
                  /\ getsize(disk, potential_paths[i]) > 0}
    IN  IF ok = {} THEN <<>> ELSE <<potential_paths[Min(ok)]>>

\* ---------------------------------------------- download_magnet_file, steps
\* One evaluation of "while not handle.has_metadata():" and, when it holds,
\* one pass through the loop body up to time.sleep(1).
metadata_step(L, pending, now, metadata_timeout, has_metadata) ==
    IF has_metadata THEN [next |-> "gate", drained |-> FALSE]
    ELSE IF now - L.start_time > metadata_timeout
    THEN [next |-> "raise", drained |-> FALSE,
          raised |-> Raised("MetadataTimeout",
              <<"Timeout while downloading metadata. ",
                "The magnet link might be invalid or have no active seeders.">>)]
    ELSE IF first_error(pending) # <<>>
    THEN [next |-> "raise", drained |-> TRUE,
          raised |-> Raised("EngineError",
              <<"Torrent error: ", first_error(pending)[1].message>>)]
    ELSE [next |-> "sleep", drained |-> TRUE]

\* (mutant) a torrent of exactly the maximum size is refused
exceeds_limit_inclusive(total_size, max_size) == total_size >= max_size

\* "if total_size > max_size"
exceeds_limit(total_size, max_size) == total_size > max_size

\* From handle.get_torrent_info() to "stalled_time = 0".
gate_step(torrent_info, max_size, now) ==
    IF torrent_info.num_files = 0
    THEN [next |-> "raise",
          raised |-> Raised("NoFilesInTorrent", <<"No files found in torrent.">>)]
    ELSE IF exceeds_limit(torrent_info.total_size, max_size)
    THEN [next |-> "raise",
          raised |-> Raised("FileTooLarge",
              <<"File too large (", ToString(torrent_info.total_size \div (1024 * 1024)),
                "MB). ", "Maximum allowed size is ",
                ToString(max_size \div (1024 * 1024)), "MB.">>)]
    ELSE LET file_info == torrent_info.files[1]
             filename == sanitized_filename(file_info, now)
         IN  [next |-> "transfer",
              locals |-> [torrent_info |-> torrent_info,
                          expected_full_path |-> join(DOWNLOADS_DIR, file_info),
                          sanitized_path |-> join(DOWNLOADS_DIR, filename),
                          start_download_time |-> now,
                          last_progress |-> 0,
                          stalled_time |-> 0]]

\* (mutant) the timeout is raised when the time is just used up
download_timed_out_inclusive(elapsed_time, download_timeout) ==
    elapsed_time >= download_timeout

\* (mutant) the timeout is taken twice as long
download_timed_out_doubled(elapsed_time, download_timeout) ==
    elapsed_time > 2 * download_timeout + 2

\* "Check overall timeout"
download_timed_out(elapsed_time, download_timeout) ==
    elapsed_time > download_timeout

\* (mutant) the check raises two passes later
stall_tracking_late(L, current_progress) ==
    IF Abs(current_progress - L.last_progress) < Epsilon
    THEN [stalled_time |-> L.stalled_time + StallStep,
          last_progress |-> L.last_progress,
          raises |-> L.stalled_time + StallStep > StallLimit + 2 * StallStep]
    ELSE [stalled_time |-> 0, last_progress |-> current_progress, raises |-> FALSE]

\* (mutant) a larger change keeps the accumulated stall time
stall_tracking_no_reset(L, current_progress) ==
    IF Abs(current_progress - L.last_progress) < Epsilon
    THEN [stalled_time |-> L.stalled_time + StallStep,
          last_progress |-> L.last_progress,
          raises |-> L.stalled_time + StallStep > StallLimit]
    ELSE [stalled_time |-> L.stalled_time, last_progress |-> current_progress,
          raises |-> FALSE]

\* "Check for stalled downloads": the new stalled_time and last_progress, and
\* whether the check raises.
stall_tracking(L, current_progress) ==
    IF Abs(current_progress - L.last_progress) < Epsilon
    THEN [stalled_time |-> L.stalled_time + StallStep,
          last_progress |-> L.last_progress,
          raises |-> L.stalled_time + StallStep > StallLimit]
    ELSE [stalled_time |-> 0, last_progress |-> current_progress, raises |-> FALSE]

\* (mutant) exactly 95% is not enough
early_exit_above(L, disk, current_progress) ==
    IF current_progress > EarlyExitProgress
    THEN first_found(disk, <<L.expected_full_path, L.sanitized_path>>)
    ELSE <<>>

\* "Check if we have enough data": the path returned, as a sequence of 0 or 1.
early_exit(L, disk, current_progress) ==
    IF current_progress >= EarlyExitProgress
    THEN first_found(disk, <<L.expected_full_path, L.sanitized_path>>)
    ELSE <<>>

\* One evaluation of "while not handle.status().is_finished:" and, when it
\* holds, one pass through the loop body up to time.sleep(2).
transfer_step(L, pending, disk, now, download_timeout, is_finished, current_progress) ==
    LET elapsed_time == now - L.start_download_time
        stall == stall_tracking(L, current_progress)
        tracked == [stalled_time |-> stall.stalled_time,
                    last_progress |-> stall.last_progress]
        found == early_exit(L, disk, current_progress)
    IN  IF is_finished THEN [next |-> "resolve", drained |-> FALSE, locals |-> <<>>]
        ELSE IF download_timed_out(elapsed_time, download_timeout)
        THEN [next |-> "raise", drained |-> FALSE, locals |-> <<>>,
              raised |-> Raised("DownloadTimeout",
                  <<"Download timeout (", ToString(download_timeout), "s). ",
                    "File may be too large or insufficient seeders available.">>)]
        ELSE IF first_error(pending) # <<>>
        THEN [next |-> "raise", drained |-> TRUE, locals |-> <<>>,
              raised |-> Raised("EngineError",
                  <<"Download error: ", first_error(pending)[1].message>>)]
        ELSE IF stall.raises
        THEN [next |-> "raise", drained |-> TRUE, locals |-> tracked,
              raised |-> Raised("StalledDownload",
                  <<"Download appears to be stalled. No progress for 30 seconds.">>)]
        ELSE IF found # <<>>
        THEN [next |-> "return", drained |-> TRUE, locals |-> tracked,
              returned |-> Returned(found[1])]
        ELSE [next |-> "sleep", drained |-> TRUE, locals |-> tracked]

\* (mutant) the files of the download directory are tried first
resolve_step_scan_first(L, disk, listing) ==
    LET scanned == SelectSeq([i \in 1..Len(listing) |->
                                 join(DOWNLOADS_DIR, listing[i])],
                             LAMBDA item_path : isfile(disk, item_path))
        potential_paths ==
            scanned \o <<L.expected_full_path, L.sanitized_path,
                         join(DOWNLOADS_DIR, L.torrent_info.name)>>
        found == first_found(disk, potential_paths)
    IN  IF found # <<>> THEN Returned(found[1])
        ELSE Raised("FileNotFound",
                 <<"Download completed but file not found in expected location. ",
                   "This might be a temporary filesystem issue.">>)

\* (mutant) the download directory is not scanned
resolve_step_no_scan(L, disk, listing) ==
    LET potential_paths ==
            <<L.expected_full_path, L.sanitized_path,
              join(DOWNLOADS_DIR, L.torrent_info.name)>>
        found == first_found(disk, potential_paths)
    IN  IF found # <<>> THEN Returned(found[1])
        ELSE Raised("FileNotFound",
                 <<"Download completed but file not found in expected location. ",
                   "This might be a temporary filesystem issue.">>)

\* "Download completed, find the file": listing is os.listdir's answer, in the
\* order the system gave it.
resolve_step(L, disk, listing) ==
    LET scanned == SelectSeq([i \in 1..Len(listing) |->
                                 join(DOWNLOADS_DIR, listing[i])],
                             LAMBDA item_path : isfile(disk, item_path))
        potential_paths ==
            <<L.expected_full_path, L.sanitized_path,
              join(DOWNLOADS_DIR, L.torrent_info.name)>> \o scanned
        found == first_found(disk, potential_paths)
    IN  IF found # <<>> THEN Returned(found[1])
        ELSE Raised("FileNotFound",
                 <<"Download completed but file not found in expected location. ",
                   "This might be a temporary filesystem issue.">>)

\* The orders in which os.listdir may answer.
Listings(names) ==
    {f \in [1..Cardinality(names) -> names] :
        \A i, j \in 1..Cardinality(names) : i # j => f[i] # f[j]}

\* ------------------------------------------------------------------ actions
\* download_magnet_file ends, by "raise" or by "return": its locals are gone
Exit(r, outcome) ==
    /\ result' = [result EXCEPT ![r] = outcome]
    /\ pc' = [pc EXCEPT ![r] = "returned"]
    /\ loc' = [loc EXCEPT ![r] = NoLocals]
    /\ wake' = [wake EXCEPT ![r] = 0]

\* magnet_link = request.POST.get("magnet", "").strip()
magnet_link(r) == strip(post[r])

\* (mutant) the format check is skipped
validate_input_unchecked(link) ==
    IF link = <<>>
    THEN <<ErrorPage("EmptyInput", <<"Please provide a magnet link.">>)>>
    ELSE <<>>

\* "Validate input": the error page rendered, as a sequence of 0 or 1
validate_input(link) ==
    IF link = <<>>
    THEN <<ErrorPage("EmptyInput", <<"Please provide a magnet link.">>)>>
    ELSE IF ~is_valid_magnet(link)
    THEN <<ErrorPage("InvalidMagnetFormat",
              <<"Invalid magnet link format. Please ensure it starts with ",
                "'magnet:?xt=urn:btih:' and contains a valid hash.">>)>>
    ELSE <<>>

\* is_valid_magnet(magnet) applied to the string as it is; the verdict is
\* kept in pc
validate_magnet(r) ==
    /\ pc[r] = "validate"
    /\ pc' = [pc EXCEPT ![r] = IF is_valid_magnet(post[r]) THEN "valid"
                               ELSE "invalid"]
    /\ UNCHANGED <<time, fs, settings, libtorrent_installed, post, swarm, ses,
                   alerts, loc, wake, result, response, hist>>

\* download_view on a POST, up to the call of download_magnet_file
download_view_post(r) ==
    /\ pc[r] = "idle"
    /\ \E submitted \in MagnetInputs :
          LET rejected == validate_input(strip(submitted))
          IN  /\ post' = [post EXCEPT ![r] = submitted]
              /\ IF rejected # <<>>
                 THEN /\ response' = [response EXCEPT ![r] = rejected[1]]
                      /\ pc' = [pc EXCEPT ![r] = "done"]
                 ELSE /\ response' = response
                      /\ pc' = [pc EXCEPT ![r] = "call"]
    /\ UNCHANGED <<time, fs, settings, libtorrent_installed, swarm, ses, alerts,
                   loc, wake, result, hist>>

\* download_magnet_file: "import libtorrent as lt"
import_libtorrent(r) ==
    /\ pc[r] = "call"
    /\ IF libtorrent_installed
       THEN /\ pc' = [pc EXCEPT ![r] = "cleanup"]
            /\ UNCHANGED <<result, loc, wake>>
       ELSE Exit(r, Raised("EngineUnavailable",
                <<"LibTorrent library is not available. Please contact administrator.">>))
    /\ UNCHANGED <<time, fs, settings, libtorrent_installed, post,
                   swarm, ses, alerts, response, hist>>

\* download_magnet_file: cleanup_old_files(settings.DOWNLOADS_DIR), which may
\* be cut short by an exception it swallows.
run_cleanup(r) ==
    /\ pc[r] = "cleanup"
    /\ \E run \in cleanup_runs(fs, DOWNLOADS_DIR, time, MaxAgeHours) :
          /\ fs' = run.disk
          /\ hist' = [hist EXCEPT ![r] =
                        Merge(@, [swept |-> TRUE,
                                  unswept |->
                                     {n \in Expired(fs, DOWNLOADS_DIR, time,
                                                    MaxAgeHours) :
                                         exists(run.disk, join(DOWNLOADS_DIR, n))},
                                  sweep_error |-> run.error,
                                  removed |-> Cardinality({p \in DOMAIN fs :
                                                              run.disk[p] # fs[p]})])]
    /\ pc' = [pc EXCEPT ![r] = "open"]
    /\ UNCHANGED <<time, settings, libtorrent_installed, post, swarm,
                   ses, alerts, loc, wake, result, response>>

\* (mutant) handle.is_valid() is not tested
handle_check_skipped(handle) ==
    IF handle \in {"valid", "invalid"} THEN [next |-> "mdwait"]
    ELSE [next |-> "raise",
          raised |-> Raised("UnexpectedError",
                        <<"Unexpected download error: ", "unsupported URL protocol">>)]

\* handle = lt.add_magnet_uri(ses, magnet_link, params), which may raise, and
\* "if not handle.is_valid(): raise"
handle_check(handle) ==
    CASE handle = "valid" -> [next |-> "mdwait"]
      [] handle = "invalid" ->
            [next |-> "raise",
             raised |-> Raised("InvalidMagnetHandle",
                           <<"Invalid magnet link provided.">>)]
      [] handle = "raises" ->
            [next |-> "raise",
             raised |-> Raised("UnexpectedError",
                           <<"Unexpected download error: ",
                             "unsupported URL protocol">>)]

\* download_magnet_file: os.makedirs, lt.session(), apply_settings,
\* lt.add_magnet_uri, handle.is_valid(), start_time = time.time()
open_session(r) ==
    /\ pc[r] = "open"
    /\ \E made \in {"ok", "oserror"}, handle \in {"valid", "invalid", "raises"} :
          /\ hist' = [hist EXCEPT ![r] =
                        Merge(@, [handle |-> IF made = "oserror" THEN "none"
                                             ELSE handle])]
          /\ IF made = "oserror"
             THEN /\ Exit(r, Raised("UnexpectedError",
                         <<"Unexpected download error: ",
                           "[Errno 13] Permission denied: '/d'">>))
                  /\ UNCHANGED <<fs, ses>>
             ELSE /\ fs' = makedirs(fs, DOWNLOADS_DIR, time)
                  /\ ses' = [ses EXCEPT ![r] =
                               [state |-> "open",
                                listen_interfaces |-> "0.0.0.0:6881"]]
                  /\ IF handle_check(handle).next = "mdwait"
                     THEN /\ pc' = [pc EXCEPT ![r] = "mdwait"]
                          /\ loc' = [loc EXCEPT ![r] =
                                       Merge(@, [start_time |-> time])]
                          /\ wake' = [wake EXCEPT ![r] = time]
                          /\ result' = result
                     ELSE Exit(r, handle_check(handle).raised)
    /\ UNCHANGED <<time, settings, libtorrent_installed, post, swarm,
                   alerts, response>>

\* one iteration of the metadata wait loop
metadata_wait(r) ==
    /\ pc[r] = "mdwait"
    /\ time >= wake[r]
    /\ \E has_metadata \in BOOLEAN :
          LET step == metadata_step(loc[r], alerts[r], time,
                                    settings.TORRENT_METADATA_TIMEOUT, has_metadata)
          IN  /\ alerts' = [alerts EXCEPT ![r] = IF step.drained THEN <<>> ELSE @]
              /\ CASE step.next = "gate" ->
                        /\ pc' = [pc EXCEPT ![r] = "gate"]
                        /\ UNCHANGED <<result, loc, wake>>
                   [] step.next = "raise" ->
                        Exit(r, step.raised)
                   [] step.next = "sleep" ->
                        /\ wake' = [wake EXCEPT ![r] = time + MetadataSleep]
                        /\ UNCHANGED <<result, loc, pc>>
          /\ hist' = [hist EXCEPT ![r] =
                        Merge(@, [md_ticks |-> @.md_ticks + 1,
                                  has_metadata |-> has_metadata])]
    /\ UNCHANGED <<time, fs, settings, libtorrent_installed, post,
                   swarm, ses, response>>

\* the metadata validation gate and the set-up of the transfer loop
metadata_gate(r) ==
    /\ pc[r] = "gate"
    /\ LET step == gate_step(swarm[r].info, settings.MAX_DOWNLOAD_SIZE, time)
       IN  CASE step.next = "raise" ->
                  Exit(r, step.raised)
             [] step.next = "transfer" ->
                  /\ loc' = [loc EXCEPT ![r] = Merge(@, step.locals)]
                  /\ pc' = [pc EXCEPT ![r] = "transfer"]
                  /\ wake' = [wake EXCEPT ![r] = time]
                  /\ result' = result
    /\ hist' = [hist EXCEPT ![r] = Merge(@, [gated |-> TRUE])]
    /\ UNCHANGED <<time, fs, settings, libtorrent_installed, post,
                   swarm, ses, alerts, response>>

\* what a transfer tick leaves in the observation record
tick_history(H, L, step, current_progress) ==
    IF step.locals = <<>> THEN Merge(H, [dl_ticks |-> H.dl_ticks + 1])
    ELSE Merge(H,
           [dl_ticks |-> H.dl_ticks + 1,
            stall_run |-> IF Abs(current_progress - L.last_progress) < Epsilon
                          THEN H.stall_run + 1 ELSE 0,
            broken_run |-> IF Abs(current_progress - L.last_progress) < Epsilon
                           THEN H.broken_run ELSE H.stall_run,
            creep_run |-> IF H.dl_ticks > 0
                             /\ Abs(current_progress - H.prev_progress) < Epsilon
                          THEN H.creep_run + 1 ELSE 0,
            prev_progress |-> current_progress])

\* one iteration of the transfer loop
transfer_tick(r) ==
    /\ pc[r] = "transfer"
    /\ time >= wake[r]
    /\ \E is_finished \in BOOLEAN, current_progress \in ProgressValues :
          LET step == transfer_step(loc[r], alerts[r], fs, time,
                                    settings.TORRENT_DOWNLOAD_TIMEOUT,
                                    is_finished, current_progress)
          IN  /\ alerts' = [alerts EXCEPT ![r] = IF step.drained THEN <<>> ELSE @]
              /\ hist' = [hist EXCEPT ![r] =
                            tick_history(@, loc[r], step, current_progress)]
              /\ CASE step.next = "resolve" ->
                        /\ pc' = [pc EXCEPT ![r] = "resolve"]
                        /\ UNCHANGED <<result, loc, wake>>
                   [] step.next = "raise" ->
                        Exit(r, step.raised)
                   [] step.next = "return" ->
                        Exit(r, step.returned)
                   [] step.next = "sleep" ->
                        /\ loc' = [loc EXCEPT ![r] = Merge(@, step.locals)]
                        /\ wake' = [wake EXCEPT ![r] = time + TransferSleep]
                        /\ UNCHANGED <<result, pc>>
    /\ UNCHANGED <<time, fs, settings, libtorrent_installed, post,
                   swarm, ses, response>>

\* artifact resolution after the loop
resolve_artifact(r) ==
    /\ pc[r] = "resolve"
    /\ \E listing \in Listings(listdir(fs, DOWNLOADS_DIR)) :
          LET outcome == resolve_step(loc[r], fs, listing)
          IN  Exit(r, outcome)
    /\ hist' = [hist EXCEPT ![r] = Merge(@, [resolved |-> TRUE])]
    /\ UNCHANGED <<time, fs, settings, libtorrent_installed, post,
                   swarm, ses, alerts, response>>

\* download_view after download_magnet_file has returned or raised
view_response(res, disk) ==
    IF res.kind = "error" THEN ErrorPage(res.error, res.message)
    ELSE IF ~exists(disk, res.path)
    THEN ErrorPage("UnexpectedError", <<"Download failed for unknown reason.">>)
    ELSE IF isdir(disk, res.path)
    THEN ErrorPage("UnexpectedError",
             <<"Error preparing file for download: ", "[Errno 21] Is a directory">>)
    ELSE FileResponse(res.path, getsize(disk, res.path))

download_view_respond(r) ==
    /\ pc[r] = "returned"
    /\ response' = [response EXCEPT ![r] = view_response(result[r], fs)]
    /\ pc' = [pc EXCEPT ![r] = "done"]
    /\ UNCHANGED <<time, fs, settings, libtorrent_installed, post,
                   swarm, ses, alerts, loc, wake, result, hist>>

\* ------------------------------------------------------ environment actions
\* The session object is released only by garbage collection, once nothing
\* refers to the frame of download_magnet_file any more: after a return, or
\* after download_view has left its except clause.
Unreferenced(r) ==
    \/ pc[r] = "done"
    \/ pc[r] = "returned" /\ result[r].kind = "path"

collect_session(r) ==
    /\ ses[r].state = "open"
    /\ Unreferenced(r)
    /\ ses' = [ses EXCEPT ![r] = Merge(@, [state |-> "closed"])]
    /\ alerts' = [alerts EXCEPT ![r] = <<>>]
    /\ UNCHANGED <<time, fs, settings, libtorrent_installed, pc, post,
                   swarm, loc, wake, result, response, hist>>

\* the engine posts an alert to an open session
post_alert(r) ==
    /\ ses[r].state = "open"
    /\ pc[r] \in {"mdwait", "gate", "transfer", "resolve"}
    /\ Len(alerts[r]) < MaxAlerts
    /\ \E a \in AlertTypes : alerts' = [alerts EXCEPT ![r] = Append(@, a)]
    /\ UNCHANGED <<time, fs, settings, libtorrent_installed, pc, post,
                   swarm, ses, loc, wake, result, response, hist>>

\* the engine, holding the metadata, writes the torrent's first file (what it
\* writes after download_magnet_file has ended no statement of the request
\* reads any more, the file can only appear or grow)
engine_writes(r) ==
    /\ ses[r].state = "open"
    /\ pc[r] \in {"gate", "transfer", "resolve"}
    /\ swarm[r].written # <<>>
    /\ fs' = engine_write(fs, swarm[r].written)
    /\ fs' # fs
    /\ UNCHANGED <<time, settings, libtorrent_installed, pc, post,
                   swarm, ses, alerts, loc, wake, result, response, hist>>

\* a second passes while some request sleeps
tick_clock ==
    /\ \E r \in Requests : pc[r] \in {"mdwait", "transfer"} /\ time < wake[r]
    /\ time' = time + 1
    /\ UNCHANGED <<fs, settings, libtorrent_installed, pc, post,
                   swarm, ses, alerts, loc, wake, result, response, hist>>

\* ----------------------------------------------------------- specifications
Settings(metadata_timeout, download_timeout) ==
    [TORRENT_METADATA_TIMEOUT |-> metadata_timeout,
     TORRENT_DOWNLOAD_TIMEOUT |-> download_timeout,
     MAX_DOWNLOAD_SIZE |-> DefaultMaxDownloadSize]

InitRequests(present) ==
    /\ time = 0
    /\ pc = [r \in Requests |-> IF r \in present THEN "idle" ELSE "absent"]
    /\ post = [r \in Requests |-> <<>>]
    /\ ses = [r \in Requests |-> NoSession]
    /\ alerts = [r \in Requests |-> <<>>]
    /\ loc = [r \in Requests |-> NoLocals]
    /\ wake = [r \in Requests |-> 0]
    /\ result = [r \in Requests |-> NoResult]
    /\ response = [r \in Requests |-> NoResponse]
    /\ hist = [r \in Requests |-> NoHistory]

\* one request at a time
Init ==
    /\ InitRequests({"r1"})
    /\ settings = Settings(MetadataTimeout, DownloadTimeout)
    /\ libtorrent_installed \in BOOLEAN
    /\ fs \in InitialDisks
    /\ swarm \in [Requests -> Swarms]
    /\ swarm["r2"] = SwarmPlain

\* Request r1 has just passed the metadata gate for SwarmPlain at time 0, on
\* the given disk; every other request is at the given place.
ValidLink == MagnetPrefix \o Rep("a", 40)
InitAfterGate(disk, others) ==
    /\ time = 0
    /\ libtorrent_installed = TRUE
    /\ fs = disk
    /\ pc = [r \in Requests |-> IF r = "r1" THEN "transfer" ELSE others]
    /\ post = [r \in Requests |-> IF r = "r1" THEN ValidLink ELSE <<>>]
    /\ ses = [r \in Requests |->
                IF r = "r1"
                THEN [state |-> "open", listen_interfaces |-> "0.0.0.0:6881"]
                ELSE NoSession]
    /\ alerts = [r \in Requests |-> <<>>]
    /\ loc = [r \in Requests |->
                IF r = "r1"
                THEN Merge(NoLocals, gate_step(SwarmPlain.info,
                                               DefaultMaxDownloadSize, 0).locals)
                ELSE NoLocals]
    /\ wake = [r \in Requests |-> 0]
    /\ result = [r \in Requests |-> NoResult]
    /\ response = [r \in Requests |-> NoResponse]
    /\ hist = [r \in Requests |->
                IF r = "r1"
                THEN Merge(NoHistory, [md_ticks |-> 1, swept |-> TRUE, gated |-> TRUE,
                                       handle |-> "valid", has_metadata |-> TRUE])
                ELSE NoHistory]

\* two requests served concurrently: r2 arrives while r1 transfers
InitConc ==
    /\ \E disk \in {makedirs(EmptyDisk, DOWNLOADS_DIR, 0), LeftoverDisk(0 - 3600)} :
          InitAfterGate(disk, "idle")
    /\ settings = Settings(ConcMetadataTimeout, ConcDownloadTimeout)
    /\ swarm = [r \in Requests |-> IF r = "r1" THEN SwarmPlain ELSE SwarmMulti]

\* the transfer loop alone: the first file is not on disk yet, or is there whole
InitStall ==
    /\ \E disk \in {makedirs(EmptyDisk, DOWNLOADS_DIR, 0),
                    engine_write(engine_write(makedirs(EmptyDisk, DOWNLOADS_DIR, 0),
                                              SwarmPlain.written),
                                 SwarmPlain.written)} :
          InitAfterGate(disk, "absent")
    /\ settings = Settings(MetadataTimeout, StallDownloadTimeout)
    /\ swarm = [r \in Requests |-> SwarmPlain]

\* The directories the sweep is tried on: each of three names directly under
\* the downloads directory is absent or a file created 3601 s or 3600 s before
\* time 0, and the subdirectory is absent, or 3601 s old and empty, or
\* holding a file as old; or there is no downloads directory at all.
SweepDisks ==
    {EmptyDisk} \cup
    {[p \in AllPaths |->
        IF p = DOWNLOADS_DIR THEN DirEntry(0 - 3601)
        ELSE IF p = join(DOWNLOADS_DIR, NameSafe) THEN top[1]
        ELSE IF p = join(DOWNLOADS_DIR, NamePlain) THEN top[2]
        ELSE IF p = join(DOWNLOADS_DIR, NameLeftover) THEN top[3]
        ELSE IF p = join(DOWNLOADS_DIR, NameDir) /\ sub > 0 THEN DirEntry(0 - 3601)
        ELSE IF p = join(DOWNLOADS_DIR, NameInDir) /\ sub > 1
        THEN FileEntry(7, 0 - 3601)
        ELSE NoEntry] :
      top \in [1..3 -> {NoEntry, FileEntry(7, 0 - 3601), FileEntry(7, 0 - 3600)}],
      sub \in 0..2}

\* two requests about to run the sweep one after the other, the clock fixed
InitSweep ==
    /\ time \in {0, 1}
    /\ libtorrent_installed = TRUE
    /\ fs \in SweepDisks
    /\ pc = [r \in Requests |-> "cleanup"]
    /\ post = [r \in Requests |-> ValidLink]
    /\ ses = [r \in Requests |-> NoSession]
    /\ alerts = [r \in Requests |-> <<>>]
    /\ loc = [r \in Requests |-> NoLocals]
    /\ wake = [r \in Requests |-> 0]
    /\ result = [r \in Requests |-> NoResult]
    /\ response = [r \in Requests |-> NoResponse]
    /\ hist = [r \in Requests |-> NoHistory]
    /\ settings = Settings(MetadataTimeout, DownloadTimeout)
    /\ swarm = [r \in Requests |-> SwarmPlain]

\* is_valid_magnet alone, on each of the strings
InitValidate ==
    /\ time = 0
    /\ libtorrent_installed = TRUE
    /\ fs = EmptyDisk
    /\ pc = [r \in Requests |-> "validate"]
    /\ post \in [Requests -> ValidatorInputs]
    /\ post["r2"] = <<>>
    /\ ses = [r \in Requests |-> NoSession]
    /\ alerts = [r \in Requests |-> <<>>]
    /\ loc = [r \in Requests |-> NoLocals]
    /\ wake = [r \in Requests |-> 0]
    /\ result = [r \in Requests |-> NoResult]
    /\ response = [r \in Requests |-> NoResponse]
    /\ hist = [r \in Requests |-> NoHistory]
    /\ settings = Settings(MetadataTimeout, DownloadTimeout)
    /\ swarm = [r \in Requests |-> SwarmPlain]

Program(r) ==
    \/ download_view_post(r)
    \/ import_libtorrent(r)
    \/ run_cleanup(r)
    \/ open_session(r)
    \/ metadata_wait(r)
    \/ metadata_gate(r)
    \/ transfer_tick(r)
    \/ resolve_artifact(r)
    \/ download_view_respond(r)

Environment(r) ==
    \/ collect_session(r)
    \/ post_alert(r)
    \/ engine_writes(r)

Next ==
    \/ \E r \in Requests : Program(r)
    \/ \E r \in Requests : Environment(r)
    \/ tick_clock

NextConc ==
    \/ \E r \in Requests : Program(r)
    \/ \E r \in Requests : collect_session(r)
    \/ \E r \in Requests : engine_writes(r)
    \/ tick_clock

NextStall ==
    \/ \E r \in Requests : transfer_tick(r)
    \/ \E r \in Requests : post_alert(r)
    \/ tick_clock

Spec == Init /\ [][Next]_vars
SpecStall == InitStall /\ [][NextStall]_vars
SpecConc == InitConc /\ [][NextConc]_vars
NextValidate == \E r \in Requests : validate_magnet(r)
SpecValidate == InitValidate /\ [][NextValidate]_vars
NextSweep == \E r \in Requests : run_cleanup(r)
SpecSweep == InitSweep /\ [][NextSweep]_vars

\* Every thread is scheduled and time passes.
Fairness ==
    /\ WF_vars(tick_clock)
    /\ \A r \in Requests : WF_vars(Program(r))
FairSpec == Spec /\ Fairness

\* ------------------------------------------------------------------ claims
InFunction(r) ==
    pc[r] \in {"call", "cleanup", "open", "mdwait", "gate", "transfer", "resolve"}
Ended(r) == pc[r] \in {"returned", "done"}

\* C1: whenever download_magnet_file has delivered its outcome (returned or
\* raised), the session it opened is no longer open.
C1_SessionClosedAtOutcome ==
    \A r \in Requests : Ended(r) => ses[r].state # "open"

\* C2: a request that entered download_magnet_file has no outcome while it
\* runs and exactly one once it has ended, it makes at most
\* metadata_timeout/1 + 2 passes of the metadata loop and
\* download_timeout/2 + 2 passes of the transfer loop, and it does end.
C2_TickBound(r) ==
    /\ hist[r].md_ticks <= settings.TORRENT_METADATA_TIMEOUT \div MetadataSleep + 2
    /\ hist[r].dl_ticks <= settings.TORRENT_DOWNLOAD_TIMEOUT \div TransferSleep + 2
C2_OneOutcome(r) ==
    /\ InFunction(r) => result[r].kind = "none"
    /\ pc[r] = "returned" => result[r].kind \in {"path", "error"}
    /\ result[r].kind = "path" => result[r].path # <<>> /\ result[r].error = ""
    /\ result[r].kind = "error" => result[r].path = <<>> /\ result[r].error # ""
C2_OneOutcomeInBoundedTicks ==
    /\ [](\A r \in Requests : C2_TickBound(r) /\ C2_OneOutcome(r))
    /\ \A r \in Requests : (pc[r] = "call") ~> (pc[r] = "done")
\* a request timed out in the transfer loop, after the last pass it may make
C2_Witness ==
    \E r \in Requests :
        /\ pc[r] = "done"
        /\ result[r].error = "DownloadTimeout"
        /\ hist[r].dl_ticks = settings.TORRENT_DOWNLOAD_TIMEOUT \div TransferSleep + 2
        /\ hist[r].md_ticks > 1

\* C3: a request whose stripped input is empty or fails is_valid_magnet ends
\* with an error page and never enters download_magnet_file: no sweep, no
\* session, no outcome of the download; a session exists only for a link
\* that is_valid_magnet accepts.
C3_Rejected(r) ==
    /\ pc[r] \notin {"absent", "idle"}
    /\ (magnet_link(r) = <<>> \/ ~is_valid_magnet(magnet_link(r)))
C3_NoEngineForInvalidInput ==
    \A r \in Requests :
        /\ C3_Rejected(r) =>
              /\ pc[r] = "done"
              /\ response[r].kind = "error"
              /\ response[r].error \in {"EmptyInput", "InvalidMagnetFormat"}
              /\ ses[r].state = "none"
              /\ ~hist[r].swept
              /\ hist[r].md_ticks = 0
              /\ result[r].kind = "none"
        /\ ses[r].state # "none" => is_valid_magnet(magnet_link(r))
C3_Witness ==
    \E r \in Requests :
        /\ pc[r] = "done"
        /\ post[r] = MagnetPrefix \o Rep("9", 39)
        /\ response[r].error = "InvalidMagnetFormat"
        /\ ses[r].state = "none"

\* C4: the transfer loop runs only for a torrent with at least one file and a
\* total size of at most MAX_DOWNLOAD_SIZE; at the gate a torrent without
\* files fails with NoFilesInTorrent and one of size maximum + 1 with
\* FileTooLarge, both before any pass of the transfer loop; a torrent of
\* exactly the maximum size enters the loop.
C4_MetadataGate ==
    \A r \in Requests :
        LET info == swarm[r].info
            max == settings.MAX_DOWNLOAD_SIZE
        IN  /\ (pc[r] \in {"transfer", "resolve"} \/ hist[r].dl_ticks > 0) =>
                  info.num_files >= 1 /\ info.total_size <= max
            /\ (hist[r].gated /\ info.num_files = 0) =>
                  /\ result[r].error = "NoFilesInTorrent"
                  /\ hist[r].dl_ticks = 0
            /\ (hist[r].gated /\ info.num_files >= 1 /\ info.total_size >= max + 1) =>
                  /\ result[r].error = "FileTooLarge"
                  /\ hist[r].dl_ticks = 0
            /\ (hist[r].gated /\ info.num_files >= 1 /\ info.total_size = max) =>
                  /\ result[r].error \notin {"NoFilesInTorrent", "FileTooLarge"}
                  /\ (pc[r] = "transfer" \/ hist[r].dl_ticks > 0)
C4_Witness ==
    \E r \in Requests :
        /\ hist[r].gated
        /\ swarm[r].info.total_size = settings.MAX_DOWNLOAD_SIZE + 1
        /\ result[r].error = "FileTooLarge"
        /\ hist[r].dl_ticks = 0

\* The number of consecutive passes that trip the check at line 201:
\* stalled_time grows by StallStep per pass and must exceed StallLimit.
StallTicks == StallLimit \div StallStep + 1

\* C5 as stated (delta taken from the previous tick): once the progress of
\* StallTicks consecutive passes of the transfer loop each differed by less
\* than 0.001 from the progress of the pass before, the request has failed
\* with StalledDownload.
C5_StalledOnPreviousTickDelta ==
    \A r \in Requests :
        hist[r].creep_run >= StallTicks =>
            result[r].kind = "error" /\ result[r].error = "StalledDownload"

\* C5 amended (delta taken from the recorded baseline last_progress): once
\* the progress of StallTicks consecutive passes of the transfer loop each
\* differed by less than 0.001 from the baseline, and none of these passes was
\* ended by finished, the timeout or an error alert, the request has failed
\* with StalledDownload, at that pass and before any early exit.
C5_StalledOnBaselineDelta ==
    \A r \in Requests :
        hist[r].stall_run >= StallTicks =>
              /\ pc[r] = "returned"
              /\ result[r].kind = "error"
              /\ result[r].error = "StalledDownload"
              /\ hist[r].stall_run = StallTicks
\* sixteen passes within 0.001 of the baseline 0.9495 end in StalledDownload;
\* the last of them reports 95% with the file on disk, and the stall check,
\* coming first, wins over the early exit
C5_Witness ==
    \E r \in Requests :
        /\ result[r].error = "StalledDownload"
        /\ hist[r].stall_run = StallTicks
        /\ hist[r].dl_ticks = StallTicks + 1
        /\ hist[r].prev_progress = EarlyExitProgress
        /\ first_found(fs, <<join(DOWNLOADS_DIR, swarm[r].info.files[1])>>) # <<>>

\* C6: a pass of the transfer loop whose progress differs from the baseline
\* by at least 0.001 leaves stalled_time = 0 and that progress as the new
\* baseline; stalled_time is always StallStep times the number of
\* below-epsilon passes since the last reset; and StalledDownload is raised
\* only after StallTicks consecutive below-epsilon passes, so that 14 of
\* them followed by a larger jump do not fail.
C6_StallReset ==
    \A r \in Requests :
        /\ (pc[r] = "transfer" /\ hist[r].dl_ticks > 0 /\ hist[r].stall_run = 0) =>
              /\ loc[r].stalled_time = 0
              /\ loc[r].last_progress = hist[r].prev_progress
        /\ pc[r] = "transfer" =>
              loc[r].stalled_time = StallStep * hist[r].stall_run
        /\ result[r].error = "StalledDownload" => hist[r].stall_run >= StallTicks
        /\ (hist[r].stall_run < StallTicks /\ hist[r].dl_ticks > 0
              /\ result[r].kind = "error") =>
              result[r].error \in {"DownloadTimeout", "EngineError"}
\* 14 below-epsilon passes, a jump, and two more passes: 17 passes, no failure
C6_Witness ==
    \E r \in Requests :
        /\ pc[r] = "transfer"
        /\ hist[r].broken_run = 14
        /\ hist[r].stall_run = 2
        /\ hist[r].dl_ticks = 17
        /\ result[r].kind = "none"

\* "os.path.exists(path) and os.path.getsize(path) > 0" on the disk as it is
NonEmpty(path) == exists(fs, path) /\ getsize(fs, path) > 0

\* a pass of r's transfer loop that finished, the timeout, an error alert and
\* the stall check do not end
C7_PassReachesEarlyExit(r) ==
    /\ pc[r] = "transfer"
    /\ hist'[r].dl_ticks = hist[r].dl_ticks + 1
    /\ pc'[r] # "resolve"
    /\ time - loc[r].start_download_time <= settings.TORRENT_DOWNLOAD_TIMEOUT
    /\ \A i \in 1..Len(alerts[r]) : "error_notification" \notin alerts[r][i].category
    /\ result'[r].error # "StalledDownload"

\* C7: in a pass of the transfer loop that the timeout, an error alert and
\* the stall check do not end, if progress >= 0.95 and the expected path
\* (download directory + first file of the torrent) or the sanitized path
\* holds a non-empty file, the function returns that path in this pass (the
\* expected path first), the engine not having reported finished; with
\* progress < 0.95, or neither file there, the pass ends in the sleep and
\* the request stays in the loop without an outcome.
C7_EarlyExit ==
    [][\A r \in Requests :
         C7_PassReachesEarlyExit(r) =>
            LET current_progress == hist'[r].prev_progress
                expected == loc[r].expected_full_path
                sanitized == loc[r].sanitized_path
            IN  /\ expected = join(DOWNLOADS_DIR, swarm[r].info.files[1])
                /\ IF /\ current_progress >= EarlyExitProgress
                      /\ (NonEmpty(expected) \/ NonEmpty(sanitized))
                   THEN /\ pc'[r] = "returned"
                        /\ result'[r] = Returned(IF NonEmpty(expected)
                                                 THEN expected ELSE sanitized)
                        /\ ~hist'[r].resolved
                   ELSE /\ pc'[r] = "transfer"
                        /\ result'[r].kind = "none"
                        /\ wake'[r] = time + TransferSleep]_vars
\* at exactly 95%, with the file under its sanitized name only, the loop
\* returns the sanitized path
C7_Witness ==
    \E r \in Requests :
        /\ pc[r] = "returned"
        /\ ~hist[r].resolved
        /\ hist[r].prev_progress = EarlyExitProgress
        /\ swarm[r] = SwarmRenamed
        /\ result[r] = Returned(join(DOWNLOADS_DIR, NameSafe))

\* C8: the resolution after the loop returns the first of expected path,
\* sanitized path and display-name path that exists with non-zero size; when
\* none of the three does, it returns a regular file of the download
\* directory that has non-zero size, if there is one (the only one, if there
\* is a single one); it fails with FileNotFound exactly when no candidate
\* qualifies.
C8_ArtifactResolution ==
    [][\A r \in Requests :
         (pc[r] = "resolve" /\ pc'[r] = "returned") =>
            LET expected == loc[r].expected_full_path
                sanitized == loc[r].sanitized_path
                display == join(DOWNLOADS_DIR, swarm[r].info.name)
                scanned == {path \in {join(DOWNLOADS_DIR, item) :
                                         item \in listdir(fs, DOWNLOADS_DIR)} :
                               isfile(fs, path) /\ NonEmpty(path)}
            IN  /\ expected = join(DOWNLOADS_DIR, swarm[r].info.files[1])
                /\ CASE NonEmpty(expected) -> result'[r] = Returned(expected)
                     [] ~NonEmpty(expected) /\ NonEmpty(sanitized) ->
                           result'[r] = Returned(sanitized)
                     [] ~NonEmpty(expected) /\ ~NonEmpty(sanitized)
                           /\ NonEmpty(display) ->
                           result'[r] = Returned(display)
                     [] ~NonEmpty(expected) /\ ~NonEmpty(sanitized)
                           /\ ~NonEmpty(display) /\ scanned # {} ->
                           /\ result'[r].kind = "path"
                           /\ result'[r].path \in scanned
                     [] OTHER ->
                           /\ result'[r].kind = "error"
                           /\ result'[r].error = "FileNotFound"]_vars
\* the three named candidates are absent and the scan finds the one file an
\* earlier request left in the directory
C8_Witness ==
    \E r \in Requests :
        /\ hist[r].resolved
        /\ result[r] = Returned(join(DOWNLOADS_DIR, NameLeftover))
        /\ ~NonEmpty(join(DOWNLOADS_DIR, swarm[r].info.files[1]))
        /\ ~NonEmpty(join(DOWNLOADS_DIR, swarm[r].info.name))

\* C9: cleanup_old_files never runs while a session is open, the caller's or
\* another request's: at every sweep of the download directory no request
\* holds an open session.
C9_NoSweepDuringSession ==
    [][\A r \in Requests :
         (pc[r] = "cleanup" /\ pc'[r] = "open") =>
            \A q \in Requests : ses[q].state # "open"]_vars

\* C10: no two sessions are open at the same time on the same listen
\* interface and port.
C10_DistinctListenPorts ==
    \A r, q \in Requests :
        (r # q /\ ses[r].state = "open" /\ ses[q].state = "open") =>
            ses[r].listen_interfaces # ses[q].listen_interfaces

\* a pass of r's metadata loop or transfer loop (the loop condition included)
C11_Polls(r) ==
    \/ pc[r] = "mdwait" /\ hist'[r].md_ticks = hist[r].md_ticks + 1
    \/ pc[r] = "transfer" /\ hist'[r].dl_ticks = hist[r].dl_ticks + 1

\* C11: a pass of the metadata loop or of the transfer loop that finds an
\* error alert pending in the session ends the request with EngineError
\* carrying that alert's message, and leaves no alert undrained, whatever
\* has_metadata, the clock and is_finished are at that pass.
C11_ErrorAlertFirst ==
    [][\A r \in Requests :
         (C11_Polls(r) /\ first_error(alerts[r]) # <<>>) =>
            /\ pc'[r] = "returned"
            /\ result'[r].kind = "error"
            /\ result'[r].error = "EngineError"
            /\ result'[r].message[Len(result'[r].message)] =
                  first_error(alerts[r])[1].message
            /\ alerts'[r] = <<>>]_vars

\* r runs the sweep after another request has run it (the clock is fixed and
\* nothing is added in between)
C12_SecondRun(r, q) ==
    /\ q # r
    /\ hist[q].swept
    /\ pc[r] = "cleanup"
    /\ pc'[r] = "open"

\* no run of the sweep removes anything but regular files directly under the
\* downloads directory whose age exceeds max_age_hours * 3600 seconds
C12_AgeGuard ==
    \A p \in AllPaths :
        fs'[p] # fs[p] =>
            /\ fs'[p] = NoEntry
            /\ isfile(fs, p)
            /\ dirname(p) = DOWNLOADS_DIR
            /\ time - getctime(fs, p) > MaxAgeHours * 3600

C13_HadSweepSucceeded(r) == Remove(fs, DOWNLOADS_DIR, hist[r].unswept)

\* C13: an error inside cleanup_old_files is swallowed: the request goes on
\* to os.makedirs and lt.session() without an outcome, and the outcome of the
\* resolution is of the kind (a path, or FileNotFound) it would have been had
\* the sweep removed every expired file.
C13_SweepFailureChangesNothing ==
    [][\A r \in Requests :
         /\ (pc[r] = "cleanup" /\ pc'[r] # "cleanup" /\ hist'[r].sweep_error) =>
               pc'[r] = "open" /\ result'[r].kind = "none"
         /\ (pc[r] = "resolve" /\ pc'[r] = "returned" /\ hist[r].sweep_error) =>
               LET disk == C13_HadSweepSucceeded(r)
               IN  \E listing \in Listings(listdir(disk, DOWNLOADS_DIR)) :
                      resolve_step(loc[r], disk, listing).kind = result'[r].kind]_vars

\* the number of characters of set that s holds in a row from position from
RECURSIVE C14_RunLength(_, _, _)
C14_RunLength(s, from, set) ==
    IF from > Len(s) \/ s[from] \notin set THEN 0
    ELSE 1 + C14_RunLength(s, from + 1, set)

\* s holds a hash token: "xt=urn:btih:" followed by at least 40 hexadecimal
\* or at least 32 base32 characters
C14_HasHashToken(s) ==
    \E i \in 1..Len(s) :
        /\ \A k \in 1..Len(HashKey) :
              i + k - 1 <= Len(s) /\ s[i + k - 1] = HashKey[k]
        /\ \/ C14_RunLength(s, i + Len(HashKey), HexChars) >= 40
           \/ C14_RunLength(s, i + Len(HashKey), Base32Chars) >= 32

C14_HasPrefix(s) ==
    \A k \in 1..Len(MagnetPrefix) : k <= Len(s) /\ s[k] = MagnetPrefix[k]

\* C14: is_valid_magnet(s) is false when s is empty, does not start with
\* "magnet:?xt=urn:btih:", is shorter than 50 characters or holds no hash
\* token of 40 hexadecimal or 32 base32 characters, and true otherwise; for
\* the prefix followed by n times "9" (hexadecimal only) it is true exactly
\* from n = 40 on (39 no, 40 and 41 yes), and followed by n times "z"
\* (base32 only) exactly from n = 32 on (31 no, 32 and 33 yes).
C14_ValidatorDecides ==
    \A r \in Requests :
        pc[r] \in {"valid", "invalid"} =>
            LET s == post[r]
            IN  /\ pc[r] = "valid" <=>
                      /\ s # <<>>
                      /\ C14_HasPrefix(s)
                      /\ Len(s) >= 50
                      /\ C14_HasHashToken(s)
                /\ \A n \in ValidatorRunLengths, tail \in ValidatorTails :
                      /\ s = MagnetPrefix \o Rep("9", n) \o tail =>
                            (pc[r] = "valid" <=> n >= 40)
                      /\ s = MagnetPrefix \o Rep("z", n) \o tail =>
                            (pc[r] = "valid" <=> n >= 32)
\* 41 hexadecimal characters after the prefix are accepted
C14_Witness ==
    /\ pc["r1"] = "valid"
    /\ post["r1"] = MagnetPrefix \o Rep("9", 41)

\* C15: a request whose handle the engine reports invalid has failed with
\* InvalidMagnetHandle in the step that tested the handle: it made no pass
\* of the metadata loop or of the transfer loop (so no status poll and no
\* alert drain) and never came to the gate; and the loops run only for a
\* handle reported valid.
C15_InvalidHandleFailsAtOnce ==
    \A r \in Requests :
        /\ hist[r].handle = "invalid" =>
              /\ pc[r] \in {"returned", "done"}
              /\ result[r] = Raised("InvalidMagnetHandle",
                                    <<"Invalid magnet link provided.">>)
              /\ hist[r].md_ticks = 0
              /\ hist[r].dl_ticks = 0
              /\ ~hist[r].gated
        /\ (pc[r] \in {"mdwait", "gate", "transfer", "resolve"}
              \/ hist[r].md_ticks > 0) =>
              hist[r].handle = "valid"
C15_Witness ==
    \E r \in Requests :
        /\ hist[r].handle = "invalid"
        /\ pc[r] = "done"
        /\ response[r].error = "InvalidMagnetHandle"
        /\ ses[r].state = "open"

\* the texts of the exceptions that are not TorrentDownloadError: OSError of
\* os.makedirs, the engine binding's error, OSError of open()
C16_InternalExceptionTexts ==
    {"[Errno 13] Permission denied: '/d'", "unsupported URL protocol",
     "[Errno 21] Is a directory"}

\* C16: no error message download_view shows to the user holds the text of
\* an exception that is not of the torrent domain, whether the exception was
\* raised inside download_magnet_file or while the file was being served.
C16_NoRawExceptionText ==
    \A r \in Requests :
        response[r].kind = "error" =>
            \A i \in 1..Len(response[r].message) :
                response[r].message[i] \notin C16_InternalExceptionTexts

\* C17: MetadataTimeout is raised only by a pass of the metadata loop at
\* which has_metadata is false and more than TORRENT_METADATA_TIMEOUT seconds
\* have passed since start_time; DownloadTimeout only by a pass of the
\* transfer loop at which more than TORRENT_DOWNLOAD_TIMEOUT seconds have
\* passed since start_download_time; and start_download_time is the time at
\* which the gate was passed, so the metadata wait does not count.
C17_TimeoutsStrictPerPhase ==
    [][\A r \in Requests :
         /\ (result[r].kind = "none" /\ result'[r].error = "MetadataTimeout") =>
               /\ pc[r] = "mdwait"
               /\ ~hist'[r].has_metadata
               /\ ~hist[r].gated
               /\ time - loc[r].start_time > settings.TORRENT_METADATA_TIMEOUT
         /\ (result[r].kind = "none" /\ result'[r].error = "DownloadTimeout") =>
               /\ pc[r] = "transfer"
               /\ hist[r].gated
               /\ time - loc[r].start_download_time
                     > settings.TORRENT_DOWNLOAD_TIMEOUT
         /\ (pc[r] = "gate" /\ pc'[r] = "transfer") =>
               /\ loc'[r].start_download_time = time
               /\ loc'[r].start_download_time >= loc[r].start_time
                     + MetadataSleep * (hist[r].md_ticks - 1)]_vars
\* a pass of the transfer loop made more than TORRENT_DOWNLOAD_TIMEOUT
\* seconds after start_time, but exactly that long after the gate, does not
\* time out
C17_Witness ==
    \E r \in Requests :
        /\ pc[r] = "transfer"
        /\ result[r].kind = "none"
        /\ hist[r].dl_ticks = 2
        /\ time < wake[r]
        /\ time - loc[r].start_time > settings.TORRENT_DOWNLOAD_TIMEOUT
        /\ time - loc[r].start_download_time = settings.TORRENT_DOWNLOAD_TIMEOUT

\* the paths under which r's own torrent may lie: expected, sanitized and
\* display-name path
C18_OwnPaths(r) ==
    IF swarm[r].info.files = <<>> THEN {}
    ELSE {join(DOWNLOADS_DIR, swarm[r].info.files[1]),
          join(DOWNLOADS_DIR, sanitize(basename(swarm[r].info.files[1]))),
          join(DOWNLOADS_DIR, swarm[r].info.name)}

\* C18: the path a request returns as its success is one of the paths of its
\* own torrent, never a file another request left or is writing in the
\* downloads directory.
C18_ReturnsOwnFile ==
    \A r \in Requests :
        result[r].kind = "path" => result[r].path \in C18_OwnPaths(r)

\* C19: whenever the 95% check of the transfer loop returns a path, the
\* resolution after the loop, run on the same disk with the same locals,
\* returns that path too, in whatever order os.listdir answers.
C19_EarlyExitAgreesWithResolver ==
    [][\A r \in Requests :
         (pc[r] = "transfer" /\ pc'[r] = "returned" /\ result'[r].kind = "path") =>
            \A listing \in Listings(listdir(fs, DOWNLOADS_DIR)) :
               resolve_step(loc[r], fs, listing) = result'[r]]_vars
\* the early exit returned the expected path while another request's file
\* lay in the directory as well
C19_Witness ==
    \E r \in Requests :
        /\ pc[r] = "returned"
        /\ ~hist[r].resolved
        /\ hist[r].dl_ticks > 0
        /\ result[r] = Returned(join(DOWNLOADS_DIR, swarm[r].info.files[1]))
        /\ NonEmpty(join(DOWNLOADS_DIR, NameLeftover))

\* C20: at the step at which download_magnet_file returns a path, from the
\* early exit or from the resolution, that path is a regular file of
\* non-zero size, not a directory.
C20_SuccessIsRegularFile ==
    [][\A r \in Requests :
         (result[r].kind = "none" /\ result'[r].kind = "path") =>
            /\ isfile(fs, result'[r].path)
            /\ getsize(fs, result'[r].path) > 0]_vars

====
